---- MODULE Spec2Model ----
(***************************************************************************)
(* A model of CNNdata.py: the two image loaders, the label encoding, the   *)
(* model builder and the linear script that runs them.                     *)
(*                                                                         *)
(* Representation.                                                         *)
(*  - A speed is an integer count of 1/10000 units (0.0025 is 25, 0.04 is  *)
(*    400), so the dictionary keys stay exact.                             *)
(*  - An image is named by where it came from: <<d, f>> for file f of the  *)
(*    d-th directory of the mapping, i for the i-th row of the table.      *)
(*  - The file system and the spreadsheet are inputs: fs[d] says whether   *)
(*    the d-th path of the mapping exists, whether os.listdir can list it  *)
(*    (it is a directory) and, per listed file, whether load_img decodes   *)
(*    it; the table says whether it has its two columns, and a row says    *)
(*    whether its filename cell is a string, whether its file exists,      *)
(*    whether it decodes, and its speed.                                   *)
(*  - The L2 coefficient is kept in thousandths and the dropout rate in    *)
(*    tenths.                                                              *)
(***************************************************************************)
EXTENDS Integers, Sequences, FiniteSets, TLC

VARIABLES
    pc,                \* where the run stands
    paths_and_labels,  \* the directory -> speed mapping, in insertion order
    fs,                \* per path of the mapping: [exists, listable, files]
    table,             \* the spreadsheet: [readable, has_columns, rows]
    regularized,       \* the argument of build_classification_model
    speed_to_class,    \* the module-level dictionary of line 37
    dir_pos,           \* paths of the mapping the loop has taken up
    train_images,
    train_labels,
    train_onehot,      \* train_labels after line 173
    row_pos,           \* rows of the table the loop has taken up
    test_images,
    test_labels,
    test_onehot,       \* test_labels after line 179
    build_pos,         \* statements of the builder's body already executed
    layers,            \* the Sequential model under construction
    models,            \* the model returned for each value of the flag
    invoked,           \* the components invoked so far, in order
    returned           \* the stages that returned normally

vars == <<pc, paths_and_labels, fs, table, regularized, speed_to_class,
          dir_pos, train_images, train_labels, train_onehot,
          row_pos, test_images, test_labels, test_onehot,
          build_pos, layers, models, invoked, returned>>

----------------------------------------------------------------------------
(* Bounds of the model. *)

\* SpecTrainLoader: directories in the mapping, files listed per directory.
MaxDirs == 2
MaxFiles == 2
\* SpecTestLoader: rows of the spreadsheet.
MaxRows == 2
\* Spec (the whole script): decodable files per training directory, rows.
RunMaxFiles == 1
RunMaxRows == 1

----------------------------------------------------------------------------
(* Program constants. *)

\* A table that gives 0.02 the class of 0.01.
SpeedToClassDuplicate == (25 :> 0) @@ (50 :> 1) @@ (100 :> 2) @@ (200 :> 2) @@ (400 :> 4)

\* line 37: speed_to_class = {0.0025: 0, 0.005: 1, 0.01: 2, 0.02: 3, 0.04: 4}
SpeedToClassLiteral == (25 :> 0) @@ (50 :> 1) @@ (100 :> 2) @@ (200 :> 3) @@ (400 :> 4)

KnownSpeeds == {25, 50, 100, 200, 400}

\* A speed that is no key of the dictionary (0.03).
UnknownSpeeds == {300}

\* lines 165-171: the values of train_data, in insertion order.
train_data == <<25, 50, 200, 400, 100>>

\* line 41: l2(0.005), in thousandths
l2_coefficient == 5
\* line 42: dropout_rate = 0.5, in tenths
dropout_rate_regularized == 5
\* line 73: Dense(5, activation="softmax")
num_classes_out == 5

----------------------------------------------------------------------------
(* Helpers on sequences. *)

RECURSIVE SeqsUpTo(_, _)
SeqsUpTo(S, n) ==
    IF n = 0 THEN {<<>>}
    ELSE LET shorter == SeqsUpTo(S, n - 1)
         IN shorter \cup {Append(s, x) : s \in {t \in shorter : Len(t) = n - 1}, x \in S}

IsPrefix(s, t) == Len(s) <= Len(t) /\ \A i \in 1..Len(s) : s[i] = t[i]

Count(s, x) == Cardinality({i \in 1..Len(s) : s[i] = x})

SeqMax(s) == CHOOSE m \in {s[i] : i \in 1..Len(s)} : \A i \in 1..Len(s) : s[i] <= m

----------------------------------------------------------------------------
(* check_file_path, lines 78-82: True exactly when the path exists; it     *)
(* prints and returns False otherwise, and never raises.                   *)
\* A validator that lets every path through.
check_file_path_always_true(path_exists) == TRUE

check_file_path(path_exists) == path_exists

(* load_img / img_to_array, lines 93-94 and 115-116: raises unless the     *)
(* file is there and is an image the library decodes.                      *)
load_img_ok(file_exists, decodes) == file_exists /\ decodes

----------------------------------------------------------------------------
(* load_images_with_classes, lines 85-99. *)

\* lines 92-98: one iteration of the inner loop, for file f of directory d.
LoadFile(acc, d, f, label) ==
    IF load_img_ok(TRUE, fs[d].files[f])
    THEN [images |-> Append(acc.images, <<d, f>>),
          labels |-> Append(acc.labels, label)]
    ELSE acc

RECURSIVE LoadFiles(_, _, _, _)
\* lines 90-98: the inner loop over os.listdir(path), from file f on.
LoadFiles(acc, d, f, label) ==
    IF f > Len(fs[d].files) THEN acc
    ELSE LoadFiles(LoadFile(acc, d, f, label), d, f + 1, label)

\* os.listdir, line 90: raises on a path it cannot list, one that is missing
\* (FileNotFoundError) or one that exists and is no directory
\* (NotADirectoryError). The call stands outside the try block, so the
\* exception leaves the loader.
listdir_raises(listable) == ~listable

\* lines 87-98: one iteration of the outer loop, for directory d. The result
\* says what the two lists hold afterwards and whether an exception left the
\* loop.
LoadDir(acc, d) ==
    IF ~check_file_path(fs[d].exists)
    THEN [images |-> acc.images, labels |-> acc.labels, raised |-> FALSE]
    ELSE IF listdir_raises(fs[d].listable)
    THEN [images |-> acc.images, labels |-> acc.labels, raised |-> TRUE]
    ELSE LET r == LoadFiles(acc, d, 1, paths_and_labels[d])
         IN [images |-> r.images, labels |-> r.labels, raised |-> FALSE]

----------------------------------------------------------------------------
(* load_test_images_from_excel, lines 102-124. *)

\* What one iteration leaves: the two lists, whether an exception left the
\* loop, and whether check_file_path was called.
RowResult(images, labels, raised, checked) ==
    [images |-> images, labels |-> labels, raised |-> raised, checked |-> checked]

\* lines 107-110, outside the try block: row['filename'] and row['speed']
\* raise KeyError on a table without these columns, and os.path.join raises
\* TypeError on a filename cell that is no string (a blank or numeric cell).
path_raises(row) == ~table.has_columns \/ ~row.name_ok

\* A loop that keeps the row's raw speed as its label, as the training
\* loader does.
ProcessRowRawSpeed(acc, i, row) ==
    IF path_raises(row)
    THEN RowResult(acc.images, acc.labels, TRUE, FALSE)
    ELSE IF ~check_file_path(row.exists) \/ ~load_img_ok(row.exists, row.decodes)
    THEN RowResult(acc.images, acc.labels, FALSE, TRUE)
    ELSE RowResult(Append(acc.images, i), Append(acc.labels, row.speed), FALSE, TRUE)

\* A loop without the check of line 111, and with load_img outside the try
\* block: a missing file raises out of the loader.
ProcessRowMissingRaises(acc, i, row) ==
    IF path_raises(row)
    THEN RowResult(acc.images, acc.labels, TRUE, FALSE)
    ELSE IF ~row.exists
    THEN RowResult(acc.images, acc.labels, TRUE, FALSE)
    ELSE IF ~load_img_ok(row.exists, row.decodes)
    THEN RowResult(acc.images, acc.labels, FALSE, FALSE)
    ELSE IF row.speed \in DOMAIN speed_to_class
    THEN RowResult(Append(acc.images, i),
                   Append(acc.labels, speed_to_class[row.speed]), FALSE, FALSE)
    ELSE RowResult(Append(acc.images, i), acc.labels, FALSE, FALSE)

\* lines 106-122: one iteration of the loop, for row i of the table. Reading
\* the cells and composing the path (lines 107-110) stand outside the try
\* block: an exception there leaves the loader before check_file_path is
\* called. The try block appends the image (line 117) before it looks the
\* speed up (line 120); the KeyError of an unknown speed is an Exception, so
\* the handler of line 121 takes it and the loop goes on.
ProcessRow(acc, i, row) ==
    IF path_raises(row)
    THEN RowResult(acc.images, acc.labels, TRUE, FALSE)
    ELSE IF ~check_file_path(row.exists)
    THEN RowResult(acc.images, acc.labels, FALSE, TRUE)
    ELSE IF ~load_img_ok(row.exists, row.decodes)
    THEN RowResult(acc.images, acc.labels, FALSE, TRUE)
    ELSE IF row.speed \in DOMAIN speed_to_class
    THEN RowResult(Append(acc.images, i),
                   Append(acc.labels, speed_to_class[row.speed]), FALSE, TRUE)
    ELSE RowResult(Append(acc.images, i), acc.labels, FALSE, TRUE)

----------------------------------------------------------------------------
(* keras.utils.to_categorical as lines 173 and 179 call it, with no        *)
(* num_classes: the width is the largest label plus one, and an empty      *)
(* list has no largest label (np.max raises).                              *)

OneHot(c, width) == [k \in 1..width |-> IF k = c + 1 THEN 1 ELSE 0]

to_categorical(y) ==
    IF Len(y) = 0
    THEN [raised |-> TRUE, value |-> <<>>]
    ELSE LET width == SeqMax(y) + 1
         IN [raised |-> FALSE, value |-> [i \in 1..Len(y) |-> OneHot(y[i], width)]]

\* line 173: the list comprehension that maps every training speed to its class
TrainClasses(labels) == [i \in 1..Len(labels) |-> speed_to_class[labels[i]]]

----------------------------------------------------------------------------
(* build_classification_model, lines 40-75. *)

Layer(kind, units, kernel, reg, activation, rate) ==
    [kind |-> kind, units |-> units, kernel |-> kernel, reg |-> reg,
     activation |-> activation, rate |-> rate]

\* A builder with no dropout after its dense block.
BuildBodyThreeDropouts(flag) ==
    LET reg == IF flag THEN l2_coefficient ELSE 0
        dropout_rate == IF flag THEN dropout_rate_regularized ELSE 0
        Always(l) == [layer |-> l, runs |-> TRUE]
        Drop == [layer |-> Layer("Dropout", 0, 0, 0, "none", dropout_rate),
                 runs |-> dropout_rate > 0]
        BN == Always(Layer("BatchNormalization", 0, 0, 0, "none", 0))
        Relu == Always(Layer("Activation", 0, 0, 0, "relu", 0))
        Pool == Always(Layer("MaxPooling2D", 0, 2, 0, "none", 0))
        Conv(n) == Always(Layer("Conv2D", n, 5, reg, "none", 0))
    IN << Conv(32), BN, Relu, Pool, Drop,
          Conv(64), BN, Relu, Pool, Drop,
          Conv(128), BN, Relu, Pool, Drop,
          Always(Layer("Flatten", 0, 0, 0, "none", 0)),
          Always(Layer("Dense", 256, 0, reg, "none", 0)),
          BN, Relu,
          Always(Layer("Dense", num_classes_out, 0, 0, "softmax", 0)) >>

\* The body of the function as its model.add statements, each with the
\* condition under which it runs.
BuildBody(flag) ==
    LET reg == IF flag THEN l2_coefficient ELSE 0               \* line 41
        dropout_rate == IF flag THEN dropout_rate_regularized ELSE 0   \* line 42
        Always(l) == [layer |-> l, runs |-> TRUE]
        Drop == [layer |-> Layer("Dropout", 0, 0, 0, "none", dropout_rate),
                 runs |-> dropout_rate > 0]
        BN == Always(Layer("BatchNormalization", 0, 0, 0, "none", 0))
        Relu == Always(Layer("Activation", 0, 0, 0, "relu", 0))
        Pool == Always(Layer("MaxPooling2D", 0, 2, 0, "none", 0))
        Conv(n) == Always(Layer("Conv2D", n, 5, reg, "none", 0))
    IN << Conv(32), BN, Relu, Pool, Drop,                       \* lines 45-50
          Conv(64), BN, Relu, Pool, Drop,                       \* lines 52-57
          Conv(128), BN, Relu, Pool, Drop,                      \* lines 59-64
          Always(Layer("Flatten", 0, 0, 0, "none", 0)),         \* line 66
          Always(Layer("Dense", 256, 0, reg, "none", 0)),       \* line 67
          BN, Relu, Drop,                                       \* lines 68-71
          Always(Layer("Dense", num_classes_out, 0, 0, "softmax", 0)) >>  \* line 73

\* A builder that adds its dropout layers whatever the rate.
ExecStatementUnconditional(model, stmt) == Append(model, stmt.layer)

\* One statement of the body: model.add, or nothing when its condition fails.
ExecStatement(model, stmt) == IF stmt.runs THEN Append(model, stmt.layer) ELSE model

RECURSIVE ExecFrom(_, _, _)
ExecFrom(model, body, k) ==
    IF k > Len(body) THEN model
    ELSE ExecFrom(ExecStatement(model, body[k]), body, k + 1)

build_classification_model(flag) == ExecFrom(<<>>, BuildBody(flag), 1)

\* The shape of what the model puts out: the width of its last layer.
OutputWidth(model) == model[Len(model)].units

----------------------------------------------------------------------------
(* The inputs the specifications draw from. *)

MissingDir == [exists |-> FALSE, listable |-> FALSE, files |-> <<>>]

\* A path that exists and that os.listdir cannot list: a regular file.
NotADir == [exists |-> TRUE, listable |-> FALSE, files |-> <<>>]

\* A path of the mapping: missing, no directory, or a directory listing up
\* to n files, each decodable or not.
DirStates(n) ==
    {MissingDir, NotADir} \cup
    {[exists |-> TRUE, listable |-> TRUE, files |-> l] : l \in SeqsUpTo(BOOLEAN, n)}

\* A training path of the whole-script runs: missing, no directory, or a
\* directory holding up to RunMaxFiles images.
RunDirStates ==
    {MissingDir, NotADir} \cup
    {[exists |-> TRUE, listable |-> TRUE, files |-> [f \in 1..k |-> TRUE]] :
        k \in 0..RunMaxFiles}

\* The labels of the mappings the training loader is applied to on its own.
SampleLabels == {25, 100}

\* A row whose filename cell is no string: there is no path to speak of.
NamelessRows ==
    {[name_ok |-> FALSE, exists |-> FALSE, decodes |-> FALSE, speed |-> s] :
        s \in {50} \cup UnknownSpeeds}

Rows ==
    NamelessRows \cup
    [name_ok : {TRUE}, exists : BOOLEAN, decodes : BOOLEAN,
     speed : KnownSpeeds \cup UnknownSpeeds]

\* The rows of the whole-script runs: a filename that is no string, a
\* missing file, or an image at one of two known speeds or at an unknown one.
RunRows ==
    {[name_ok |-> FALSE, exists |-> FALSE, decodes |-> FALSE, speed |-> 50],
     [name_ok |-> TRUE, exists |-> FALSE, decodes |-> TRUE, speed |-> 50]} \cup
    {[name_ok |-> TRUE, exists |-> TRUE, decodes |-> TRUE, speed |-> s] :
        s \in {50, 400} \cup UnknownSpeeds}

Unreadable == [readable |-> FALSE, has_columns |-> FALSE, rows |-> <<>>]

\* A table that pd.read_excel reads: one with its two columns and up to n
\* rows, or one that lacks a column, of which only the number of rows counts.
Tables(rows, n) ==
    {Unreadable} \cup
    {[readable |-> TRUE, has_columns |-> TRUE, rows |-> r] : r \in SeqsUpTo(rows, n)} \cup
    {[readable |-> TRUE, has_columns |-> FALSE, rows |-> r] :
        r \in SeqsUpTo({CHOOSE row \in NamelessRows : TRUE}, n)}

NoModels == [flag \in BOOLEAN |-> <<>>]

----------------------------------------------------------------------------
(* The state before anything ran, for a given input. *)

InitWith(start, mapping, dirs, tbl, flag) ==
    /\ pc = start
    /\ paths_and_labels = mapping
    /\ fs = dirs
    /\ table = tbl
    /\ regularized = flag
    /\ speed_to_class = SpeedToClassLiteral
    /\ dir_pos = 0
    /\ train_images = <<>>
    /\ train_labels = <<>>
    /\ train_onehot = <<>>
    /\ row_pos = 0
    /\ test_images = <<>>
    /\ test_labels = <<>>
    /\ test_onehot = <<>>
    /\ build_pos = 0
    /\ layers = <<>>
    /\ models = NoModels
    /\ invoked = <<>>
    /\ returned = {}

\* The script, lines 164-202: train_data is the mapping, line 182 passes True.
Init ==
    \E dirs \in [1..Len(train_data) -> RunDirStates], tbl \in Tables(RunRows, RunMaxRows) :
        InitWith("start", train_data, dirs, tbl, TRUE)

\* load_images_with_classes applied to any mapping.
InitTrainLoader ==
    \E n \in 0..MaxDirs :
        \E mapping \in [1..n -> SampleLabels], dirs \in [1..n -> DirStates(MaxFiles)] :
            InitWith("start", mapping, dirs, Unreadable, TRUE)

\* load_test_images_from_excel applied to any table.
InitTestLoader ==
    \E tbl \in Tables(Rows, MaxRows) :
        InitWith("call_test", <<>>, <<>>, tbl, TRUE)

\* build_classification_model, not yet called.
InitBuild == InitWith("idle", <<>>, <<>>, Unreadable, TRUE)

----------------------------------------------------------------------------
(* load_images_with_classes, step by step. *)

\* line 172 calls the loader; line 86 starts the two lists.
LoadTrainCall ==
    /\ pc = "start"
    /\ pc' = "train_loop"
    /\ invoked' = Append(invoked, "load_images_with_classes")
    /\ train_images' = <<>>
    /\ train_labels' = <<>>
    /\ dir_pos' = 0
    /\ UNCHANGED <<paths_and_labels, fs, table, regularized, speed_to_class,
                   train_onehot, row_pos, test_images, test_labels, test_onehot,
                   build_pos, layers, models, returned>>

\* lines 87-98: the next directory of the mapping.
TrainDir ==
    /\ pc = "train_loop"
    /\ dir_pos < Len(paths_and_labels)
    /\ LET acc == LoadDir([images |-> train_images, labels |-> train_labels], dir_pos + 1)
       IN /\ train_images' = acc.images
          /\ train_labels' = acc.labels
          /\ pc' = IF acc.raised THEN "aborted" ELSE "train_loop"
    /\ dir_pos' = dir_pos + 1
    /\ invoked' = Append(invoked, "check_file_path")
    /\ UNCHANGED <<paths_and_labels, fs, table, regularized, speed_to_class,
                   train_onehot, row_pos, test_images, test_labels, test_onehot,
                   build_pos, layers, models, returned>>

\* line 99
TrainReturn ==
    /\ pc = "train_loop"
    /\ dir_pos = Len(paths_and_labels)
    /\ pc' = "encode_train"
    /\ returned' = returned \cup {"load_images_with_classes"}
    /\ UNCHANGED <<paths_and_labels, fs, table, regularized, speed_to_class,
                   dir_pos, train_images, train_labels, train_onehot,
                   row_pos, test_images, test_labels, test_onehot,
                   build_pos, layers, models, invoked>>

\* line 173
EncodeTrain ==
    /\ pc = "encode_train"
    /\ LET r == to_categorical(TrainClasses(train_labels))
       IN /\ pc' = IF r.raised THEN "aborted" ELSE "call_test"
          /\ train_onehot' = r.value
    /\ UNCHANGED <<paths_and_labels, fs, table, regularized, speed_to_class,
                   dir_pos, train_images, train_labels,
                   row_pos, test_images, test_labels, test_onehot,
                   build_pos, layers, models, invoked, returned>>

----------------------------------------------------------------------------
(* load_test_images_from_excel, step by step. *)

\* line 178 calls the loader; line 103 reads the table (pd.read_excel raises
\* when it cannot); line 104 starts the two lists.
LoadTestCall ==
    /\ pc = "call_test"
    /\ pc' = IF table.readable THEN "test_loop" ELSE "aborted"
    /\ invoked' = Append(invoked, "load_test_images_from_excel")
    /\ test_images' = <<>>
    /\ test_labels' = <<>>
    /\ row_pos' = 0
    /\ UNCHANGED <<paths_and_labels, fs, table, regularized, speed_to_class,
                   dir_pos, train_images, train_labels, train_onehot, test_onehot,
                   build_pos, layers, models, returned>>

\* lines 106-122: the next row of the table.
TestRow ==
    /\ pc = "test_loop"
    /\ row_pos < Len(table.rows)
    /\ LET r == ProcessRow([images |-> test_images, labels |-> test_labels],
                           row_pos + 1, table.rows[row_pos + 1])
       IN /\ test_images' = r.images
          /\ test_labels' = r.labels
          /\ pc' = IF r.raised THEN "aborted" ELSE "test_loop"
          /\ invoked' = IF r.checked THEN Append(invoked, "check_file_path") ELSE invoked
    /\ row_pos' = row_pos + 1
    /\ UNCHANGED <<paths_and_labels, fs, table, regularized, speed_to_class,
                   dir_pos, train_images, train_labels, train_onehot, test_onehot,
                   build_pos, layers, models, returned>>

\* line 124
TestReturn ==
    /\ pc = "test_loop"
    /\ row_pos = Len(table.rows)
    /\ pc' = "encode_test"
    /\ returned' = returned \cup {"load_test_images_from_excel"}
    /\ UNCHANGED <<paths_and_labels, fs, table, regularized, speed_to_class,
                   dir_pos, train_images, train_labels, train_onehot,
                   row_pos, test_images, test_labels, test_onehot,
                   build_pos, layers, models, invoked>>

\* line 179
EncodeTest ==
    /\ pc = "encode_test"
    /\ LET r == to_categorical(test_labels)
       IN /\ pc' = IF r.raised THEN "aborted" ELSE "build"
          /\ test_onehot' = r.value
    /\ UNCHANGED <<paths_and_labels, fs, table, regularized, speed_to_class,
                   dir_pos, train_images, train_labels, train_onehot,
                   row_pos, test_images, test_labels,
                   build_pos, layers, models, invoked, returned>>

----------------------------------------------------------------------------
(* build_classification_model. *)

\* line 182: the script builds its model; the function is pure, and this is
\* the whole call.
Build ==
    /\ pc = "build"
    /\ pc' = "train"
    /\ invoked' = Append(invoked, "build_classification_model")
    /\ models' = [models EXCEPT ![regularized] = build_classification_model(regularized)]
    /\ returned' = returned \cup {"build_classification_model"}
    /\ UNCHANGED <<paths_and_labels, fs, table, regularized, speed_to_class,
                   dir_pos, train_images, train_labels, train_onehot,
                   row_pos, test_images, test_labels, test_onehot,
                   build_pos, layers>>

\* The function called on its own, any number of times, with either value
\* of its flag; line 44 makes the empty Sequential. The log of the script's
\* stages is not part of these calls.
BuildCall ==
    /\ pc = "idle"
    /\ pc' = "building"
    /\ \E flag \in BOOLEAN : regularized' = flag
    /\ layers' = <<>>
    /\ build_pos' = 0
    /\ UNCHANGED <<paths_and_labels, fs, table, speed_to_class,
                   dir_pos, train_images, train_labels, train_onehot,
                   row_pos, test_images, test_labels, test_onehot,
                   models, invoked, returned>>

\* lines 45-73: the next statement of the body.
AddStatement ==
    /\ pc = "building"
    /\ build_pos < Len(BuildBody(regularized))
    /\ layers' = ExecStatement(layers, BuildBody(regularized)[build_pos + 1])
    /\ build_pos' = build_pos + 1
    /\ UNCHANGED <<pc, paths_and_labels, fs, table, regularized, speed_to_class,
                   dir_pos, train_images, train_labels, train_onehot,
                   row_pos, test_images, test_labels, test_onehot,
                   models, invoked, returned>>

\* line 75
BuildReturn ==
    /\ pc = "building"
    /\ build_pos = Len(BuildBody(regularized))
    /\ pc' = "idle"
    /\ models' = [models EXCEPT ![regularized] = layers]
    /\ UNCHANGED <<paths_and_labels, fs, table, regularized, speed_to_class,
                   dir_pos, train_images, train_labels, train_onehot,
                   row_pos, test_images, test_labels, test_onehot,
                   build_pos, layers, invoked, returned>>

----------------------------------------------------------------------------
(* The rest of the script. fit, the plots and the report are library       *)
(* calls: each either completes or raises, and which of the two is left    *)
(* open here, except that fit cannot complete on arrays whose shapes do    *)
(* not go together.                                                        *)

\* What model.fit (lines 132-138) needs of its arrays: label vectors as wide
\* as the model's output, for the categorical cross-entropy of line 129, and
\* as many validation labels as validation images.
ShapesFit(model) ==
    /\ \A i \in 1..Len(train_onehot) : Len(train_onehot[i]) = OutputWidth(model)
    /\ \A i \in 1..Len(test_onehot) : Len(test_onehot[i]) = OutputWidth(model)
    /\ Len(train_images) = Len(train_onehot)
    /\ Len(test_images) = Len(test_onehot)

\* lines 185-192
Train ==
    /\ pc = "train"
    /\ invoked' = Append(invoked, "train_classification_model")
    /\ \E completes \in {FALSE, ShapesFit(models[regularized])} :
          /\ pc' = IF completes THEN "plot" ELSE "aborted"
          /\ returned' = IF completes THEN returned \cup {"train_classification_model"}
                         ELSE returned
    /\ UNCHANGED <<paths_and_labels, fs, table, regularized, speed_to_class,
                   dir_pos, train_images, train_labels, train_onehot,
                   row_pos, test_images, test_labels, test_onehot,
                   build_pos, layers, models>>

\* A script that goes on to its plots after a failed stage.
PlotAfterFailure ==
    /\ pc \in {"plot", "aborted"}
    /\ pc' = "report"
    /\ invoked' = Append(invoked, "plot_training_history")
    /\ returned' = returned \cup {"plot_training_history"}
    /\ UNCHANGED <<paths_and_labels, fs, table, regularized, speed_to_class,
                   dir_pos, train_images, train_labels, train_onehot,
                   row_pos, test_images, test_labels, test_onehot,
                   build_pos, layers, models>>

\* line 195
Plot ==
    /\ pc = "plot"
    /\ invoked' = Append(invoked, "plot_training_history")
    /\ \E completes \in BOOLEAN :
          /\ pc' = IF completes THEN "report" ELSE "aborted"
          /\ returned' = IF completes THEN returned \cup {"plot_training_history"}
                         ELSE returned
    /\ UNCHANGED <<paths_and_labels, fs, table, regularized, speed_to_class,
                   dir_pos, train_images, train_labels, train_onehot,
                   row_pos, test_images, test_labels, test_onehot,
                   build_pos, layers, models>>

\* lines 198-202
Report ==
    /\ pc = "report"
    /\ invoked' = Append(invoked, "report")
    /\ \E completes \in BOOLEAN :
          /\ pc' = IF completes THEN "done" ELSE "aborted"
          /\ returned' = IF completes THEN returned \cup {"report"} ELSE returned
    /\ UNCHANGED <<paths_and_labels, fs, table, regularized, speed_to_class,
                   dir_pos, train_images, train_labels, train_onehot,
                   row_pos, test_images, test_labels, test_onehot,
                   build_pos, layers, models>>

----------------------------------------------------------------------------
(* The specifications. *)

Next ==
    \/ LoadTrainCall \/ TrainDir \/ TrainReturn \/ EncodeTrain
    \/ LoadTestCall \/ TestRow \/ TestReturn \/ EncodeTest
    \/ Build \/ Train \/ Plot \/ Report

Spec == Init /\ [][Next]_vars

NextTrainLoader == LoadTrainCall \/ TrainDir \/ TrainReturn

SpecTrainLoader == InitTrainLoader /\ [][NextTrainLoader]_vars

NextTestLoader == LoadTestCall \/ TestRow \/ TestReturn

SpecTestLoader == InitTestLoader /\ [][NextTestLoader]_vars

NextBuild == BuildCall \/ AddStatement \/ BuildReturn

SpecBuild == InitBuild /\ [][NextBuild]_vars

----------------------------------------------------------------------------
(* What the claims speak of. *)

\* The path of row i is composed: the table has its columns and the
\* filename cell is a string.
HasPath(i) == table.has_columns /\ table.rows[i].name_ok

\* Row i names a file that exists and decodes.
Loads(i) == HasPath(i) /\ table.rows[i].exists /\ table.rows[i].decodes

KnownSpeed(i) == table.rows[i].speed \in KnownSpeeds

\* Row i loads, and its speed is no key of the table.
BadSpeedRow(i) == Loads(i) /\ ~KnownSpeed(i)

\* Row i loads and its speed is a key of the table.
GoodRow(i) == Loads(i) /\ KnownSpeed(i)

\* The test loader has returned.
TestLoaderReturned == "load_test_images_from_excel" \in returned

\* The training loader has returned.
TrainLoaderReturned == "load_images_with_classes" \in returned

StrictlyIncreasing(s) == \A i, j \in 1..Len(s) : i < j => s[i] < s[j]

----------------------------------------------------------------------------
\* C1: in the test loader, after every processed row, images and labels have
\* the same length and the i-th label is the class of the row that produced
\* the i-th image.
C1_ImagesAndLabelsParallel ==
    pc \in {"test_loop", "encode_test"} =>
        /\ Len(test_images) = Len(test_labels)
        /\ \A k \in 1..Len(test_images) :
              /\ KnownSpeed(test_images[k])
              /\ test_labels[k] = SpeedToClassLiteral[table.rows[test_images[k]].speed]

----------------------------------------------------------------------------
\* C2: a row that loads but whose speed is unknown makes the lookup of line
\* 120 fail, and the failure aborts the test loader: no later row is
\* processed and no dataset is returned.
C2_UnknownSpeedAborts ==
    \A i \in 1..row_pos : BadSpeedRow(i) => (pc = "aborted" /\ row_pos = i)

----------------------------------------------------------------------------
\* C3: when every row loads and has a known speed, the test loader returns
\* exactly one (image, class) pair per row, in row order, the k-th class
\* being speed_to_class of the k-th row's speed.
C3_AllRowsReturned ==
    (TestLoaderReturned /\ \A i \in 1..Len(table.rows) : GoodRow(i)) =>
        /\ Len(test_images) = Len(table.rows)
        /\ Len(test_labels) = Len(table.rows)
        /\ \A k \in 1..Len(table.rows) :
              /\ test_images[k] = k
              /\ test_labels[k] = SpeedToClassLiteral[table.rows[k].speed]

\* Two good rows of different speeds, returned.
C3_Witness ==
    /\ TestLoaderReturned
    /\ Len(table.rows) >= 2
    /\ \A i \in 1..Len(table.rows) : GoodRow(i)
    /\ table.rows[1].speed # table.rows[2].speed

----------------------------------------------------------------------------
\* C10: a row whose file is missing is skipped without an abort. When all
\* rows have known speeds and decodable files and M of the R are missing,
\* the loader returns exactly R - M pairs, those of the remaining rows in
\* their row order.
C10_MissingRowsSkipped ==
    (table.readable /\ \A i \in 1..Len(table.rows) :
                          HasPath(i) /\ table.rows[i].decodes /\ KnownSpeed(i)) =>
        /\ pc # "aborted"
        /\ TestLoaderReturned =>
              LET present == {i \in 1..Len(table.rows) : table.rows[i].exists}
                  missing == {i \in 1..Len(table.rows) : ~table.rows[i].exists}
              IN /\ Len(test_images) = Len(table.rows) - Cardinality(missing)
                 /\ Len(test_labels) = Len(test_images)
                 /\ {test_images[k] : k \in 1..Len(test_images)} = present
                 /\ StrictlyIncreasing(test_images)
                 /\ \A k \in 1..Len(test_images) :
                       test_labels[k] = SpeedToClassLiteral[table.rows[test_images[k]].speed]

\* A missing first row followed by a row that loads, returned.
C10_Witness ==
    /\ TestLoaderReturned
    /\ Len(table.rows) >= 2
    /\ \A i \in 1..Len(table.rows) :
          HasPath(i) /\ table.rows[i].decodes /\ KnownSpeed(i)
    /\ ~table.rows[1].exists
    /\ table.rows[2].exists

----------------------------------------------------------------------------
\* Every path of the mapping is a directory, there or missing: none exists
\* as something os.listdir cannot list.
AllDirectories == \A d \in 1..Len(fs) : fs[d].exists => fs[d].listable

\* C4: for a mapping of directories, any of them missing and any of their
\* files undecodable, the training loader never raises, and returns two
\* lists of equal length holding exactly one (image, speed) pair per
\* decodable file of each existing directory, the speed being the
\* directory's, in the mapping's directory order and then in listing order;
\* a missing directory and an undecodable file contribute nothing.
C4_TrainLoaderResult ==
    AllDirectories =>
        /\ pc # "aborted"
        /\ TrainLoaderReturned =>
              LET decodable == {df \in (1..Len(fs)) \X (1..MaxFiles + 1) :
                                   /\ fs[df[1]].exists
                                   /\ df[2] <= Len(fs[df[1]].files)
                                   /\ fs[df[1]].files[df[2]]}
              IN /\ Len(train_images) = Cardinality(decodable)
                 /\ Len(train_labels) = Len(train_images)
                 /\ {train_images[k] : k \in 1..Len(train_images)} = decodable
                 /\ \A j, k \in 1..Len(train_images) :
                       j < k =>
                         \/ train_images[j][1] < train_images[k][1]
                         \/ /\ train_images[j][1] = train_images[k][1]
                            /\ train_images[j][2] < train_images[k][2]
                 /\ \A k \in 1..Len(train_images) :
                       train_labels[k] = paths_and_labels[train_images[k][1]]

\* A mapping with a missing directory and a directory that lists an
\* undecodable file before a decodable one, returned.
C4_Witness ==
    /\ TrainLoaderReturned
    /\ AllDirectories
    /\ \E d \in 1..Len(fs) : ~fs[d].exists
    /\ \E d \in 1..Len(fs) :
          /\ Len(fs[d].files) >= 2
          /\ ~fs[d].files[1]
          /\ fs[d].files[2]

----------------------------------------------------------------------------
\* C5: every one-hot label vector of the training set and of the test set
\* has length 5, the width of the model's output, whichever classes occur
\* in the loaded data.
C5_OneHotWidthIsFive ==
    /\ \A i \in 1..Len(train_onehot) : Len(train_onehot[i]) = num_classes_out
    /\ \A i \in 1..Len(test_onehot) : Len(test_onehot[i]) = num_classes_out

----------------------------------------------------------------------------
(* The two models of the builder, once both were returned. *)

BothBuilt == models[TRUE] # <<>> /\ models[FALSE] # <<>>

Kinds(model) == [i \in 1..Len(model) |-> model[i].kind]

Dropouts(model) == {i \in 1..Len(model) : model[i].kind = "Dropout"}

\* The layers that hold kernel weights.
Weighted(model) == {i \in 1..Len(model) : model[i].kind \in {"Conv2D", "Dense"}}

\* The model without its dropout layers and without its penalties.
RECURSIVE Skeleton(_)
Skeleton(model) ==
    IF model = <<>> THEN <<>>
    ELSE IF Head(model).kind = "Dropout" THEN Skeleton(Tail(model))
    ELSE <<[Head(model) EXCEPT !.reg = 0]>> \o Skeleton(Tail(model))

\* C6 as stated: the two models have the same number of layers in the same
\* order and the output shape (5,), and the regularized one has a non-zero
\* penalty and exactly three dropout layers that the other lacks.
C6_SameLayerCount ==
    BothBuilt =>
        /\ Len(models[TRUE]) = Len(models[FALSE])
        /\ Kinds(models[TRUE]) = Kinds(models[FALSE])
        /\ OutputWidth(models[TRUE]) = num_classes_out
        /\ OutputWidth(models[FALSE]) = num_classes_out
        /\ \E i \in Weighted(models[TRUE]) : models[TRUE][i].reg > 0
        /\ Cardinality(Dropouts(models[TRUE])) = 3
        /\ Dropouts(models[FALSE]) = {}

\* C6 as amended: the two models have the same layers in the same order
\* apart from dropout, and the output shape (5,); the regularized one has a
\* non-zero penalty and exactly four dropout layers that the other lacks,
\* which makes it 21 layers against 17.
C6_SameLayersApartFromDropout ==
    BothBuilt =>
        /\ Skeleton(models[TRUE]) = Skeleton(models[FALSE])
        /\ OutputWidth(models[TRUE]) = num_classes_out
        /\ OutputWidth(models[FALSE]) = num_classes_out
        /\ \E i \in Weighted(models[TRUE]) : models[TRUE][i].reg > 0
        /\ \A i \in Weighted(models[FALSE]) : models[FALSE][i].reg = 0
        /\ Cardinality(Dropouts(models[TRUE])) = 4
        /\ Dropouts(models[FALSE]) = {}
        /\ Len(models[TRUE]) = 21
        /\ Len(models[FALSE]) = 17

\* Both models were returned.
C6_Witness == BothBuilt /\ pc = "idle"

----------------------------------------------------------------------------
\* C8: in the regularized model each of the three convolutions and the
\* width-256 dense layer carries the L2 penalty 0.005 and is followed in its
\* stage (before the next weighted layer) by a dropout of rate 0.5, and the
\* final width-5 softmax layer carries no penalty and nothing follows it; in
\* the unregularized model no layer carries a penalty and there is no
\* dropout layer.
C8_PenaltyAndDropoutPlacement ==
    /\ models[TRUE] # <<>> =>
          LET m == models[TRUE]
              last == Len(m)
          IN /\ m[last].kind = "Dense"
             /\ m[last].units = num_classes_out
             /\ m[last].activation = "softmax"
             /\ m[last].reg = 0
             /\ {m[i].units : i \in Weighted(m) \ {last}} = {32, 64, 128, 256}
             /\ Cardinality({i \in Weighted(m) : m[i].kind = "Conv2D"}) = 3
             /\ \A i \in Weighted(m) \ {last} :
                   /\ m[i].reg = l2_coefficient
                   /\ \E j \in Dropouts(m) :
                         /\ j > i
                         /\ m[j].rate = dropout_rate_regularized
                         /\ \A k \in Weighted(m) : ~(i < k /\ k < j)
    /\ models[FALSE] # <<>> =>
          /\ \A i \in 1..Len(models[FALSE]) : models[FALSE][i].reg = 0
          /\ Dropouts(models[FALSE]) = {}

\* Both models were returned, the unregularized one last.
C8_Witness == BothBuilt /\ pc = "idle" /\ ~regularized

----------------------------------------------------------------------------
(* The table in use. *)

\* The row that produced the j-th test label: the j-th processed row that
\* loads and has a known speed.
LabelRow(j) ==
    CHOOSE i \in 1..row_pos :
        GoodRow(i) /\ Cardinality({m \in 1..i : GoodRow(m)}) = j

\* The position of the 1 in a one-hot vector, counted from 0.
HotClass(v) == CHOOSE c \in 0..(Len(v) - 1) : v[c + 1] = 1

\* C7: the table maps the five known speeds one-to-one onto 0..4 and no step
\* of the run changes it, so a speed has the same class in the training
\* labels of line 173 and in the test loader.
C7_TableIsStableBijection ==
    /\ speed_to_class = SpeedToClassLiteral
    /\ DOMAIN speed_to_class = KnownSpeeds
    /\ {speed_to_class[s] : s \in KnownSpeeds} = 0..4
    /\ \A s, t \in KnownSpeeds : speed_to_class[s] = speed_to_class[t] => s = t
    /\ \A i \in 1..Len(train_onehot), j \in 1..Len(test_labels) :
          train_labels[i] = table.rows[LabelRow(j)].speed =>
              HotClass(train_onehot[i]) = test_labels[j]

\* A run in which a training image and a labelled test row have the same
\* speed, both label lists being encoded.
C7_Witness ==
    /\ pc = "build"
    /\ \E i \in 1..Len(train_onehot), j \in 1..Len(test_labels) :
          train_labels[i] = table.rows[LabelRow(j)].speed

----------------------------------------------------------------------------
(* The order of the stages. *)

StageOrder ==
    << "load_images_with_classes", "load_test_images_from_excel",
       "build_classification_model", "train_classification_model",
       "plot_training_history", "report" >>

Stages == {StageOrder[k] : k \in 1..Len(StageOrder)}

IsStage(c) == c \in Stages

\* The stages invoked so far, in order.
StagesInvoked == SelectSeq(invoked, IsStage)

\* The stages come in their fixed order, and one starts only after the
\* earlier ones returned and, for the builder and what follows it, after
\* both label lists were encoded.
InOrderAfterCompletion ==
    /\ IsPrefix(StagesInvoked, StageOrder)
    /\ \A k \in 1..Len(StagesInvoked) : \A j \in 1..(k - 1) : StageOrder[j] \in returned
    /\ Len(StagesInvoked) >= 2 => train_onehot # <<>>
    /\ Len(StagesInvoked) >= 3 => test_onehot # <<>>

\* C9 as stated: the stages run in their fixed order, each only after the
\* earlier ones completed, and no component, the path validator included,
\* is invoked more than once.
C9_EveryComponentAtMostOnce ==
    /\ InOrderAfterCompletion
    /\ \A c \in Stages \cup {"check_file_path"} : Count(invoked, c) <= 1

\* C9 as amended: the stages run in their fixed order, each only after the
\* earlier ones completed, and each of the six stages is invoked at most
\* once; the path validator is invoked once for every directory of the
\* mapping that the training loader takes up and once for every row of the
\* table whose path the test loader composes.
C9_StagesAtMostOnce ==
    /\ InOrderAfterCompletion
    /\ \A c \in Stages : Count(invoked, c) <= 1
    /\ Count(invoked, "check_file_path") =
          dir_pos + Cardinality({i \in 1..row_pos : HasPath(i)})
    /\ TrainLoaderReturned => dir_pos = Len(train_data)
    /\ TestLoaderReturned => row_pos = Len(table.rows)

\* A run that reached its end, having validated the five directories and
\* at least one row.
C9_Witness ==
    /\ pc = "done"
    /\ Count(invoked, "check_file_path") > Len(train_data)
    /\ returned = Stages

====
